---- MODULE Spec2Model ----
(***************************************************************************)
(* Model of skills/lua-cpp-memory-leak/scripts/parse_chain.py.             *)
(*                                                                         *)
(* A Python str is a sequence of one-character strings, so that split,     *)
(* startswith and the two regular expressions are computed character by    *)
(* character.  Optional[T] is a sequence of length 0 (None) or 1.  A       *)
(* ReferenceNode carries an id field standing for the identity of the      *)
(* Python object: the class defines no __eq__, so == and list.index        *)
(* compare identities.  Python list positions are 0-based; At(list, idx)   *)
(* reads position idx of a 1-based TLA+ sequence.  The "visualization"     *)
(* and "raw_chain" keys of the analysis dict are not part of the modelled  *)
(* record (the first is display text, the second is the variable           *)
(* raw_chain).                                                             *)
(***************************************************************************)
EXTENDS Integers, Sequences, FiniteSets, TLC

VARIABLES
    raw_chain,           \* ReferenceChain.raw_chain (line 51)
    nodes,               \* ReferenceChain.nodes (line 52)
    cpp_instance,        \* ReferenceChain.cpp_instance (line 53)
    pc,                  \* where the chain object is: new, parsed, analyzed
    ret,                 \* the last method call and the value it returned
    chain_strings,       \* the argument of parse_multiple_chains (line 178)
    chains,              \* its list of chains (line 180)
    k,                   \* how many chains its for loop has visited (line 185)
    all_leaked_classes,  \* line 182
    all_cpp_instances,   \* line 183
    result,              \* its result dict (lines 191-196), None before
    mpc                  \* where parse_multiple_chains is

vars == <<raw_chain, nodes, cpp_instance, pc, ret,
          chain_strings, chains, k, all_leaked_classes, all_cpp_instances,
          result, mpc>>

singleVars == <<raw_chain, nodes, cpp_instance, pc, ret>>
multiVars == <<chain_strings, chains, k, all_leaked_classes, all_cpp_instances,
               result, mpc>>

---------------------------------------------------------------------------
(* Bounds of the checked input space. *)

MaxSegs == 3
MaxChains == 2
MaxTotalSegs == 4

---------------------------------------------------------------------------
(* Characters and optional values. *)

None == << >>
Some(x) == <<x>>

Upper == {"A", "B", "C", "D", "E", "F", "G", "H", "I", "J", "K", "L", "M",
          "N", "O", "P", "Q", "R", "S", "T", "U", "V", "W", "X", "Y", "Z"}
Lower == {"a", "b", "c", "d", "e", "f", "g", "h", "i", "j", "k", "l", "m",
          "n", "o", "p", "q", "r", "s", "t", "u", "v", "w", "x", "y", "z"}
Digit == {"0", "1", "2", "3", "4", "5", "6", "7", "8", "9"}

\* [A-Za-z0-9_]
WordChars == Upper \cup Lower \cup Digit \cup {"_"}
\* [0-9A-Fa-f]
HexChars == Digit \cup {"A", "B", "C", "D", "E", "F"}
                  \cup {"a", "b", "c", "d", "e", "f"}
\* \s, restricted to the ASCII white space a TLA+ string can hold
SpaceChars == {" ", "\t", "\n", "\r", "\f"}

Dot == "."
Marker == <<"_", "_", "c", "p", "p", "i", "n", "s", "t">>
DotMarker == <<Dot>> \o Marker
TrueLit == <<"t", "r", "u", "e">>
FalseLit == <<"f", "a", "l", "s", "e">>

---------------------------------------------------------------------------
(* The regular-expression and string primitives the parser uses. *)

RECURSIVE RunLen(_, _, _)
\* Length of the longest run of characters of S in s from position i (greedy
\* X* / X+).
RunLen(s, i, S) ==
    IF i > Len(s) \/ s[i] \notin S THEN 0 ELSE 1 + RunLen(s, i + 1, S)

\* The literal lit occurs in s at position i.
HasAt(s, i, lit) ==
    /\ i >= 1
    /\ i + Len(lit) - 1 <= Len(s)
    /\ SubSeq(s, i, i + Len(lit) - 1) = lit

\* Python's $ without re.MULTILINE: at the end of the string, or just before
\* a line feed that is the string's last character.  i is the position of the
\* next character to read.
DollarAt(s, i) ==
    \/ i = Len(s) + 1
    \/ i = Len(s) /\ s[i] = "\n"

\* str.startswith
StartsWith(s, prefix) == HasAt(s, 1, prefix)

RECURSIVE Split(_)
\* str.split('.')
Split(s) ==
    IF \E i \in 1..Len(s) : s[i] = Dot
    THEN LET i == CHOOSE j \in 1..Len(s) :
                      /\ s[j] = Dot
                      /\ \A h \in 1..(j - 1) : s[h] # Dot
         IN  <<SubSeq(s, 1, i - 1)>> \o Split(SubSeq(s, i + 1, Len(s)))
    ELSE <<s>>

\* One attempt of \.__cppinst\s*=\s*([A-Za-z0-9_]+)$ at position p of s:
\* None, or Some of group(1).
CppMatchAt(s, p) ==
    LET a == p + Len(DotMarker)
        b == a + RunLen(s, a, SpaceChars)
        c == b + 1 + RunLen(s, b + 1, SpaceChars)
        n == RunLen(s, c, WordChars)
    IN  IF /\ HasAt(s, p, DotMarker)
           /\ HasAt(s, b, <<"=">>)
           /\ n >= 1
           /\ DollarAt(s, c + n)
        THEN Some(SubSeq(s, c, c + n - 1))
        ELSE None

\* re.search of the suffix pattern: the leftmost position where it matches,
\* as [start, group1] with the 0-based start of the match; None without a
\* match.
CppSearch(s) ==
    IF \E p \in 1..Len(s) : CppMatchAt(s, p) # None
    THEN LET p == CHOOSE q \in 1..Len(s) :
                      /\ CppMatchAt(s, q) # None
                      /\ \A h \in 1..(q - 1) : CppMatchAt(s, h) = None
         IN  Some([start |-> p - 1, group1 |-> CppMatchAt(s, p)[1]])
    ELSE None

\* re.match of ^([A-Za-z0-9_]+):([0-9A-Fa-f]+)\[(true|false)\]$ on a part:
\* None, or Some of the three groups.
ClassMatch(part) ==
    LET n1 == RunLen(part, 1, WordChars)
        n2 == RunLen(part, n1 + 2, HexChars)
        q == n1 + 2 + n2
        flag == IF HasAt(part, q + 1, TrueLit) THEN TrueLit ELSE FalseLit
        r == q + 1 + Len(flag)
    IN  IF /\ n1 >= 1
           /\ HasAt(part, n1 + 1, <<":">>)
           /\ n2 >= 1
           /\ HasAt(part, q, <<"[">>)
           /\ HasAt(part, q + 1, flag)
           /\ HasAt(part, r, <<"]">>)
           /\ DollarAt(part, r + 1)
        THEN Some([group1 |-> SubSeq(part, 1, n1),
                   group2 |-> SubSeq(part, n1 + 2, q - 1),
                   group3 |-> flag])
        ELSE None

---------------------------------------------------------------------------
(* ReferenceNode. *)

\* ReferenceNode.__init__; id is the identity of the constructed object.
ReferenceNode(id, class_name, address, released, field) ==
    [id |-> id, class_name |-> class_name, address |-> address,
     released |-> released, field |-> field]

\* ReferenceNode.to_dict
NodeToDict(node) ==
    [class_name |-> node.class_name, address |-> node.address,
     released |-> node.released, field |-> node.field,
     is_leak |-> ~node.released]

\* Faulty variant of NodeEq: equality of content, as a value class has it.
NodeEqByValue(a, b) ==
    /\ a.class_name = b.class_name
    /\ a.address = b.address
    /\ a.released = b.released

\* a == b for two ReferenceNode objects: the class defines no __eq__, so this
\* is object.__eq__, the comparison of identities.
NodeEq(a, b) == a.id = b.id

---------------------------------------------------------------------------
(* ReferenceChain.__init__ and ReferenceChain.parse. *)

\* self.nodes = [] in __init__: every chain starts from its own empty list,
\* whatever list (existing) another chain holds.
NewNodes(existing) == << >>

\* Faulty variant of ListAppend: list.insert(0, x).
ListPrepend(list, x) == <<x>> \o list

\* list.append
ListAppend(list, x) == Append(list, x)

\* Faulty variant of IsFieldName: the test without its 'part and'.
IsFieldNameNoEmptyCheck(part) == ~StartsWith(part, Marker)

\* The test that lets a non-node part become the pending field name:
\* part and not part.startswith('__cppinst')
IsFieldName(part) == part # << >> /\ ~StartsWith(part, Marker)

\* Faulty variant of ChainToParse: the cut one character too early.
ChainToParseOffByOne(raw, cpp_match) ==
    IF cpp_match # None THEN SubSeq(raw, 1, cpp_match[1].start - 1) ELSE raw

\* chain_to_parse: the raw chain, cut at the start of the suffix match.
ChainToParse(raw, cpp_match) ==
    IF cpp_match # None THEN SubSeq(raw, 1, cpp_match[1].start) ELSE raw

RECURSIVE ParseLoop(_, _, _, _, _)
\* The for loop of parse over parts[i..]: ns is self.nodes so far, next_id
\* the identity the next constructed node gets.
ParseLoop(parts, i, ns, current_field, next_id) ==
    IF i > Len(parts) THEN ns
    ELSE LET part == parts[i]
             class_match == ClassMatch(part)
         IN  IF class_match # None
             THEN LET node == ReferenceNode(next_id,
                                            class_match[1].group1,
                                            class_match[1].group2,
                                            class_match[1].group3 = TrueLit,
                                            current_field)
                  IN  ParseLoop(parts, i + 1, ListAppend(ns, node), None,
                                next_id + 1)
             ELSE ParseLoop(parts, i + 1, ns,
                            IF IsFieldName(part) THEN Some(part)
                            ELSE current_field,
                            next_id)

\* ReferenceChain(chain_str): __init__ followed by parse.  existing is the
\* node list of a chain constructed earlier (empty when there is none),
\* first_id the identity of the first node this call constructs.
ReferenceChain(chain_str, existing, first_id) ==
    LET cpp_match == CppSearch(chain_str)
        chain_to_parse == ChainToParse(chain_str, cpp_match)
        parts == Split(chain_to_parse)
    IN  [raw_chain |-> chain_str,
         cpp_instance |-> IF cpp_match # None THEN Some(cpp_match[1].group1)
                          ELSE None,
         nodes |-> ParseLoop(parts, 1, NewNodes(existing), None, first_id)]

---------------------------------------------------------------------------
(* The analyzer. *)

\* list[idx] for a 0-based idx >= 0
At(list, idx) == list[idx + 1]

RECURSIVE SelectNodes(_, _)
SelectNodes(list, keep) ==
    IF list = << >> THEN << >>
    ELSE (IF Head(list).released = keep THEN <<Head(list)>> ELSE << >>)
         \o SelectNodes(Tail(list), keep)

\* Faulty variant of GetLeakNodes: the filter without its 'not'.
GetReleasedNodes(ns) == SelectNodes(ns, TRUE)

\* get_leak_nodes
GetLeakNodes(ns) == SelectNodes(ns, FALSE)

\* get_first_leak
GetFirstLeak(ns) ==
    LET leak_nodes == GetLeakNodes(ns)
    IN  IF leak_nodes # << >> THEN Some(leak_nodes[1]) ELSE None

\* list.index(node): the 0-based position of the first element equal to node,
\* or -1 where Python raises ValueError.
Index(list, node) ==
    IF \E i \in 1..Len(list) : NodeEq(list[i], node)
    THEN (CHOOSE i \in 1..Len(list) :
              /\ NodeEq(list[i], node)
              /\ \A h \in 1..(i - 1) : ~NodeEq(list[h], node)) - 1
    ELSE -1

\* get_parent
GetParent(ns, node) ==
    LET idx == Index(ns, node)
    IN  IF idx = -1 THEN None
        ELSE IF idx > 0 THEN Some(At(ns, idx - 1)) ELSE None

\* get_children
GetChildren(ns, node) ==
    LET idx == Index(ns, node)
    IN  IF idx = -1 THEN << >> ELSE SubSeq(ns, idx + 2, Len(ns))

\* Faulty variant of Priority: the test without 'parent.released'.
PriorityIgnoringRelease(parent) ==
    IF parent # None THEN "high" ELSE "medium"

\* "high" if parent and parent.released else "medium"
Priority(parent) ==
    IF parent # None /\ parent[1].released THEN "high" ELSE "medium"

\* Faulty variant of IsLastNode: self.nodes[0] for self.nodes[-1].
IsFirstNode(ns, leak_node) == NodeEq(leak_node, ns[1])

\* leak_node == self.nodes[-1]
IsLastNode(ns, leak_node) == NodeEq(leak_node, ns[Len(ns)])

\* Faulty variant of LastNodeRaises: self.nodes[-1] read before the loop.
LastNodeRaisesHoisted(ns, leak_nodes) == ns = << >>

\* self.nodes[-1] raises IndexError on an empty list; it is evaluated once
\* for every element of leak_nodes.
LastNodeRaises(ns, leak_nodes) == leak_nodes # << >> /\ ns = << >>

\* The leak_info dict of one leaked node.
LeakInfo(chain, leak_node) ==
    LET parent == GetParent(chain.nodes, leak_node)
        children == GetChildren(chain.nodes, leak_node)
    IN  [node |-> NodeToDict(leak_node),
         parent |-> IF parent # None THEN Some(NodeToDict(parent[1]))
                    ELSE None,
         parent_released |-> IF parent # None THEN Some(parent[1].released)
                             ELSE None,
         has_children |-> Len(children) > 0,
         children_count |-> Len(children),
         priority |-> Priority(parent),
         cpp_blueprint |-> IF IsLastNode(chain.nodes, leak_node)
                           THEN chain.cpp_instance ELSE None]

\* ReferenceChain.analyze (and to_dict, which returns it).  raised is None,
\* or Some of the exception that ends the call.
Analyze(chain) ==
    LET leak_nodes == GetLeakNodes(chain.nodes)
    IN  IF LastNodeRaises(chain.nodes, leak_nodes)
        THEN [raised |-> Some("IndexError")]
        ELSE [raised |-> None,
              total_nodes |-> Len(chain.nodes),
              leaked_nodes |-> Len(leak_nodes),
              cpp_instance |-> chain.cpp_instance,
              nodes |-> [i \in 1..Len(chain.nodes) |->
                             NodeToDict(chain.nodes[i])],
              leaks |-> [j \in 1..Len(leak_nodes) |->
                             LeakInfo(chain, leak_nodes[j])]]

---------------------------------------------------------------------------
(* The input strings the specifications draw from. *)

NodeSeg(class_name, address, flag) ==
    class_name \o <<":">> \o address \o <<"[">> \o flag \o <<"]">>

SegA == NodeSeg(<<"A">>, <<"1", "F">>, FalseLit)
SegB == NodeSeg(<<"B">>, <<"2">>, TrueLit)
SegC == NodeSeg(<<"C">>, <<"3">>, FalseLit)
SegNotHex == NodeSeg(<<"A">>, <<"1", "G">>, TrueLit)
SegNewline == SegA \o <<"\n">>
SegF == <<"_", "f">>
SegG == <<"g">>
SegMarkerX == Marker \o <<"_", "x">>
SegInstW == Marker \o <<" ", "=", " ", "W">>
SegInstV == Marker \o <<"=", "V">>
SegInstNewline == SegInstW \o <<"\n">>

\* The segments a single chain string is built from.
Segments ==
    {<< >>, SegA, SegB, SegNotHex, SegNewline, SegF, SegG, Marker,
     SegMarkerX, SegInstW, SegInstNewline}

\* The segments the chain strings of a batch are built from.
MultiSegments == {SegA, SegB, SegC, SegInstW, SegInstV}

SeqsUpTo(S, n) == UNION {[1..m -> S] : m \in 1..n}

RECURSIVE Join(_)
\* '.'.join(segs)
Join(segs) ==
    IF Len(segs) = 1 THEN segs[1]
    ELSE segs[1] \o <<Dot>> \o Join(Tail(segs))

Inputs == {Join(segs) : segs \in SeqsUpTo(Segments, MaxSegs)}

RECURSIVE Pieces(_, _, _)
\* The chain strings obtained by cutting the segment sequence flat after the
\* positions in cuts; from is the first position of the current piece.
Pieces(flat, cuts, from) ==
    IF from > Len(flat) THEN << >>
    ELSE LET upto == IF \E c \in cuts : c >= from
                     THEN CHOOSE c \in cuts :
                              c >= from /\ \A d \in cuts : d >= from => c <= d
                     ELSE Len(flat)
         IN  <<Join(SubSeq(flat, from, upto))>> \o Pieces(flat, cuts, upto + 1)

MultiInputs ==
    UNION {{Pieces(flat, cuts, 1) :
               cuts \in {c \in SUBSET (1..(Len(flat) - 1)) :
                            Cardinality(c) < MaxChains}} :
           flat \in SeqsUpTo(MultiSegments, MaxTotalSegs) \cup {<< >>}}

---------------------------------------------------------------------------
(* One ReferenceChain object: construction, the query methods, analyze. *)

NoRet == [op |-> "none", arg |-> None, val |-> None]

\* A ReferenceNode that is no element of any chain's list.
ForeignNode == ReferenceNode(0, <<"A">>, <<"1", "F">>, FALSE, None)

\* The chain object held in the variables.
Self == [raw_chain |-> raw_chain, cpp_instance |-> cpp_instance,
         nodes |-> nodes]

Init ==
    /\ raw_chain \in Inputs
    /\ nodes = << >>
    /\ cpp_instance = None
    /\ pc = "new"
    /\ ret = NoRet
    /\ chain_strings = << >>
    /\ chains = << >>
    /\ k = 0
    /\ all_leaked_classes = {}
    /\ all_cpp_instances = {}
    /\ result = None
    /\ mpc = "idle"

\* chain = ReferenceChain(raw_chain)
Construct ==
    /\ pc = "new"
    /\ LET chain == ReferenceChain(raw_chain, << >>, 1)
       IN  /\ nodes' = chain.nodes
           /\ cpp_instance' = chain.cpp_instance
    /\ pc' = "parsed"
    /\ UNCHANGED <<raw_chain, ret>>
    /\ UNCHANGED multiVars

\* chain.get_leak_nodes()
CallGetLeakNodes ==
    /\ pc = "parsed"
    /\ ret' = [op |-> "get_leak_nodes", arg |-> None,
               val |-> GetLeakNodes(nodes)]
    /\ UNCHANGED <<raw_chain, nodes, cpp_instance, pc>>
    /\ UNCHANGED multiVars

\* chain.get_first_leak()
CallGetFirstLeak ==
    /\ pc = "parsed"
    /\ ret' = [op |-> "get_first_leak", arg |-> None,
               val |-> GetFirstLeak(nodes)]
    /\ UNCHANGED <<raw_chain, nodes, cpp_instance, pc>>
    /\ UNCHANGED multiVars

\* chain.get_parent(node), for a node of the chain or a foreign one
CallGetParent ==
    /\ pc = "parsed"
    /\ \E node \in {nodes[i] : i \in 1..Len(nodes)} \cup {ForeignNode} :
           ret' = [op |-> "get_parent", arg |-> Some(node),
                   val |-> GetParent(nodes, node)]
    /\ UNCHANGED <<raw_chain, nodes, cpp_instance, pc>>
    /\ UNCHANGED multiVars

\* chain.get_children(node), for a node of the chain or a foreign one
CallGetChildren ==
    /\ pc = "parsed"
    /\ \E node \in {nodes[i] : i \in 1..Len(nodes)} \cup {ForeignNode} :
           ret' = [op |-> "get_children", arg |-> Some(node),
                   val |-> GetChildren(nodes, node)]
    /\ UNCHANGED <<raw_chain, nodes, cpp_instance, pc>>
    /\ UNCHANGED multiVars

\* chain.analyze()
CallAnalyze ==
    /\ pc = "parsed"
    /\ LET analysis == Analyze(Self)
       IN  /\ ret' = [op |-> "analyze", arg |-> None, val |-> analysis]
           /\ pc' = IF analysis.raised = None THEN "analyzed" ELSE "raised"
    /\ UNCHANGED <<raw_chain, nodes, cpp_instance>>
    /\ UNCHANGED multiVars

Next ==
    \/ Construct
    \/ CallGetLeakNodes
    \/ CallGetFirstLeak
    \/ CallGetParent
    \/ CallGetChildren
    \/ CallAnalyze

Spec == Init /\ [][Next]_vars

---------------------------------------------------------------------------
(* parse_multiple_chains. *)

RECURSIVE ConstructAll(_, _, _, _)
\* [ReferenceChain(chain_str) for chain_str in chain_strings], from element i
\* on; acc holds the chains constructed so far.
ConstructAll(strs, i, acc, next_id) ==
    IF i > Len(strs) THEN acc
    ELSE LET existing == IF acc = << >> THEN << >> ELSE acc[Len(acc)].nodes
             chain == ReferenceChain(strs[i], existing, next_id)
         IN  ConstructAll(strs, i + 1, Append(acc, chain),
                          next_id + Len(chain.nodes))

\* Faulty variant of AddLeakedClasses: the loop over chain.nodes.
AddAllClasses(classes, chain) ==
    classes \cup {chain.nodes[i].class_name : i \in 1..Len(chain.nodes)}

\* for leak in chain.get_leak_nodes(): all_leaked_classes.add(leak.class_name)
AddLeakedClasses(classes, chain) ==
    LET leak_nodes == GetLeakNodes(chain.nodes)
    IN  classes \cup {leak_nodes[j].class_name : j \in 1..Len(leak_nodes)}

\* if chain.cpp_instance: all_cpp_instances.add(chain.cpp_instance)
AddCppInstance(instances, chain) ==
    IF chain.cpp_instance # None /\ chain.cpp_instance[1] # << >>
    THEN instances \cup {chain.cpp_instance[1]}
    ELSE instances

\* list(a_set): the elements, each once, in an order the program does not
\* choose.
ListsOfSet(S) ==
    {f \in [1..Cardinality(S) -> S] :
        \A i, j \in 1..Cardinality(S) : f[i] = f[j] => i = j}

InitMulti ==
    /\ chain_strings \in MultiInputs
    /\ chains = << >>
    /\ k = 0
    /\ all_leaked_classes = {}
    /\ all_cpp_instances = {}
    /\ result = None
    /\ mpc = "start"
    /\ raw_chain = << >>
    /\ nodes = << >>
    /\ cpp_instance = None
    /\ pc = "idle"
    /\ ret = NoRet

\* chains = [ReferenceChain(chain_str) for chain_str in chain_strings]
ConstructChains ==
    /\ mpc = "start"
    /\ chains' = ConstructAll(chain_strings, 1, << >>, 1)
    /\ mpc' = "collect"
    /\ UNCHANGED <<chain_strings, k, all_leaked_classes, all_cpp_instances,
                   result>>
    /\ UNCHANGED singleVars

\* One iteration of for chain in chains
CollectChain ==
    /\ mpc = "collect"
    /\ k < Len(chains)
    /\ all_leaked_classes' = AddLeakedClasses(all_leaked_classes, At(chains, k))
    /\ all_cpp_instances' = AddCppInstance(all_cpp_instances, At(chains, k))
    /\ k' = k + 1
    /\ UNCHANGED <<chain_strings, chains, result, mpc>>
    /\ UNCHANGED singleVars

\* The result dict, built when the loop is over
BuildResult ==
    /\ mpc = "collect"
    /\ k = Len(chains)
    /\ \E classes \in ListsOfSet(all_leaked_classes),
          blueprints \in ListsOfSet(all_cpp_instances) :
           result' = Some([total_chains |-> Len(chains),
                           unique_leaked_classes |-> classes,
                           unique_cpp_blueprints |-> blueprints,
                           chains |-> [i \in 1..Len(chains) |->
                                           Analyze(chains[i])]])
    /\ mpc' = "done"
    /\ UNCHANGED <<chain_strings, chains, k, all_leaked_classes,
                   all_cpp_instances>>
    /\ UNCHANGED singleVars

NextMulti ==
    \/ ConstructChains
    \/ CollectChain
    \/ BuildResult

SpecMulti == InitMulti /\ [][NextMulti]_vars

---------------------------------------------------------------------------
(* What the properties below are stated with: the segments of a chain      *)
(* string and the node pattern, written out position by position.          *)

\* The k-th smallest element of a set of integers.
Kth(S, n) == CHOOSE x \in S : Cardinality({y \in S : y < x}) = n - 1

\* The constructor has run on raw_chain.
Parsed == pc \in {"parsed", "analyzed", "raised"}

\* t is white space, "=", white space, an identifier, and nothing more.
IsAnnotationTail(t) ==
    \E e \in 1..Len(t) :
        /\ t[e] = "="
        /\ \A j \in 1..(e - 1) : t[j] \in SpaceChars
        /\ \E c \in (e + 1)..Len(t) :
               /\ \A j \in (e + 1)..(c - 1) : t[j] \in SpaceChars
               /\ \A j \in c..Len(t) : t[j] \in WordChars

\* s ends with .__cppinst = Identifier, the identifier's last character
\* being the last character of s.
EndsWithAnnotation(s) ==
    \E p \in 1..Len(s) :
        /\ HasAt(s, p, DotMarker)
        /\ IsAnnotationTail(SubSeq(s, p + Len(DotMarker), Len(s)))

\* s without one final line feed.
Chomp(s) ==
    IF s # << >> /\ s[Len(s)] = "\n" THEN SubSeq(s, 1, Len(s) - 1) ELSE s

\* The raw chain without its trailing annotation: what precedes the last
\* .__cppinst when an annotation was extracted, the whole string otherwise.
Remainder ==
    IF cpp_instance = None THEN raw_chain
    ELSE LET starts == {p \in 1..Len(raw_chain) :
                            HasAt(raw_chain, p, DotMarker)}
             last == CHOOSE p \in starts : \A q \in starts : q <= p
         IN  SubSeq(raw_chain, 1, last - 1)

\* The '.'-separated segments of s: their number, and the i-th of them.
DotBounds(s) == {0, Len(s) + 1} \cup {i \in 1..Len(s) : s[i] = Dot}
NumSegs(s) == Cardinality(DotBounds(s)) - 1
SegAt(s, i) ==
    SubSeq(s, Kth(DotBounds(s), i) + 1, Kth(DotBounds(s), i + 1) - 1)

\* seg has the form ClassName:HexAddress[true|false] as the parser's pattern
\* accepts it (Python's $ admits one line feed after the closing bracket).
IsNodeSeg(seg) ==
    \E c \in 2..Len(seg), b \in 4..Len(seg) :
        /\ c + 1 < b
        /\ seg[c] = ":"
        /\ seg[b] = "["
        /\ \A j \in 1..(c - 1) : seg[j] \in WordChars
        /\ \A j \in (c + 1)..(b - 1) : seg[j] \in HexChars
        /\ Chomp(SubSeq(seg, b + 1, Len(seg)))
               \in {TrueLit \o <<"]">>, FalseLit \o <<"]">>}

\* The three items a node segment spells.
SegColon(seg) == CHOOSE c \in 1..Len(seg) : seg[c] = ":"
SegBracket(seg) == CHOOSE b \in 1..Len(seg) : seg[b] = "["
SegClassName(seg) == SubSeq(seg, 1, SegColon(seg) - 1)
SegAddress(seg) == SubSeq(seg, SegColon(seg) + 1, SegBracket(seg) - 1)
SegReleased(seg) == seg[SegBracket(seg) + 1] = "t"

\* The positions of the node segments among the segments of Remainder, and
\* the segment position of the n-th node.
NodeSegPositions ==
    {i \in 1..NumSegs(Remainder) : IsNodeSeg(SegAt(Remainder, i))}
SegPos(n) == Kth(NodeSegPositions, n)

\* The positions of the unreleased nodes in the node list.
LeakPositions == {i \in 1..Len(nodes) : ~nodes[i].released}

\* analyze() has returned its report.
Analyzed == pc = "analyzed" /\ ret.op = "analyze"

---------------------------------------------------------------------------
(* C1 *)

\* C1: once the trailing annotation is taken off, the node list has exactly
\* one node per segment that matches the node pattern, and the n-th node
\* carries the class name, address and released flag of the n-th such
\* segment, left to right.
C1_NodesAreTheNodeSegments ==
    Parsed =>
        /\ Len(nodes) = Cardinality(NodeSegPositions)
        /\ \A n \in 1..Len(nodes) :
               LET seg == SegAt(Remainder, SegPos(n))
               IN  /\ nodes[n].class_name = SegClassName(seg)
                   /\ nodes[n].address = SegAddress(seg)
                   /\ nodes[n].released = SegReleased(seg)

\* C1 witness: two different nodes parsed from a string that ends with a
\* trailing annotation, which is no segment of what is parsed.
C1_Witness ==
    /\ Parsed
    /\ Len(nodes) = 2
    /\ nodes[1].class_name # nodes[2].class_name
    /\ cpp_instance # None
    /\ NumSegs(raw_chain) > NumSegs(Remainder)

---------------------------------------------------------------------------
(* C2 *)

\* C2: whenever the parse yields a node, the node at position 0 has
\* field = none, whatever precedes the first node segment.
C2_RootFieldIsNone ==
    (Parsed /\ nodes # << >>) => nodes[1].field = None

---------------------------------------------------------------------------
(* C3 *)

\* The segments strictly between the node segment before the n-th node (or
\* the start of the string) and the n-th node's own segment.
SegsBefore(n) ==
    {j \in 1..(SegPos(n) - 1) : n > 1 => j > SegPos(n - 1)}

\* The field the n-th node must carry when the segments in named (all of
\* them lying before the node) are the ones that name a field: the text of
\* the last of them, none when there is none.
FieldFrom(named) ==
    IF named = {} THEN None
    ELSE Some(SegAt(Remainder, CHOOSE j \in named : \A h \in named : h <= j))

\* C3 as claimed: a node's field is the text of the most recent non-empty
\* field segment, other than the marker keyword __cppinst itself, between
\* the preceding node segment (or the start) and the node; none without one.
C3_FieldIsLastFieldSegmentButMarker ==
    Parsed =>
        \A n \in 1..Len(nodes) :
            nodes[n].field =
                FieldFrom({j \in SegsBefore(n) :
                              /\ SegAt(Remainder, j) # << >>
                              /\ SegAt(Remainder, j) # Marker})

\* C3 amended: a node's field is the text of the most recent non-empty field
\* segment that does not begin with the marker keyword __cppinst, between
\* the preceding node segment (or the start) and the node; none without one.
C3_FieldIsLastFieldSegmentButMarkerPrefixed ==
    Parsed =>
        \A n \in 1..Len(nodes) :
            nodes[n].field =
                FieldFrom({j \in SegsBefore(n) :
                              /\ SegAt(Remainder, j) # << >>
                              /\ ~HasAt(SegAt(Remainder, j), 1, Marker)})

\* C3 witness: a node that follows two field segments and carries the second
\* one, after a node that carries none.
C3_Witness ==
    /\ Parsed
    /\ \E n \in 1..Len(nodes) :
           /\ Cardinality({j \in SegsBefore(n) :
                              /\ SegAt(Remainder, j) # << >>
                              /\ ~HasAt(SegAt(Remainder, j), 1, Marker)}) = 2
           /\ nodes[n].field = Some(SegAt(Remainder, SegPos(n) - 1))

---------------------------------------------------------------------------
(* C4 *)

\* C4: get_leak_nodes returns exactly the unreleased nodes, in chain order,
\* none repeated or omitted; get_first_leak returns the first of them, or
\* none when there is none; the report's leaked_nodes is the length of its
\* leaks array, which has one entry per unreleased node, in chain order.
C4_LeakNodesAreTheUnreleasedNodes ==
    /\ (Parsed /\ ret.op = "get_leak_nodes") =>
           /\ Len(ret.val) = Cardinality(LeakPositions)
           /\ \A j \in 1..Len(ret.val) :
                  ret.val[j] = nodes[Kth(LeakPositions, j)]
    /\ (Parsed /\ ret.op = "get_first_leak") =>
           ret.val = IF LeakPositions = {} THEN None
                     ELSE Some(nodes[Kth(LeakPositions, 1)])
    /\ Analyzed =>
           /\ ret.val.leaked_nodes = Len(ret.val.leaks)
           /\ Len(ret.val.leaks) = Cardinality(LeakPositions)
           /\ \A j \in 1..Len(ret.val.leaks) :
                  ret.val.leaks[j].node =
                      NodeToDict(nodes[Kth(LeakPositions, j)])

\* C4 witness: get_leak_nodes has returned two nodes of a three-node chain
\* whose middle node is released.
C4_Witness ==
    /\ Parsed
    /\ ret.op = "get_leak_nodes"
    /\ Len(nodes) = 3
    /\ nodes[2].released
    /\ Len(ret.val) = 2

---------------------------------------------------------------------------
(* C5 *)

\* The position (1-based) of the node object passed to the last call.
ArgPos == CHOOSE i \in 1..Len(nodes) : nodes[i] = ret.arg[1]
ArgInChain == \E i \in 1..Len(nodes) : nodes[i] = ret.arg[1]

\* C5: get_parent of the node at position i is the node at position i-1, none
\* for the first node; get_children of it is the nodes after position i.
\* Nodes of equal class name, address and released flag at other positions
\* do not change this.
C5_ParentAndChildrenArePositional ==
    /\ (Parsed /\ ret.op = "get_parent" /\ ArgInChain) =>
           ret.val = IF ArgPos > 1 THEN Some(nodes[ArgPos - 1]) ELSE None
    /\ (Parsed /\ ret.op = "get_children" /\ ArgInChain) =>
           /\ Len(ret.val) = Len(nodes) - ArgPos
           /\ \A j \in 1..Len(ret.val) : ret.val[j] = nodes[ArgPos + j]

\* C5 witness: get_parent was asked for the third node of a chain whose first
\* node has the same class name, address and released flag.
C5_Witness ==
    /\ Parsed
    /\ ret.op = "get_parent"
    /\ ArgInChain
    /\ ArgPos = 3
    /\ NodeToDict(nodes[1]) = NodeToDict(nodes[3])
    /\ NodeToDict(nodes[2]) # NodeToDict(nodes[3])

---------------------------------------------------------------------------
(* C6 *)

\* C6: a leaks entry has priority "high" exactly when its node is not the
\* first node and the node before it is released; otherwise "medium".
C6_PriorityHighIffParentReleased ==
    Analyzed =>
        \A j \in 1..Len(ret.val.leaks) :
            LET i == Kth(LeakPositions, j)
            IN  ret.val.leaks[j].priority =
                    IF i > 1 /\ nodes[i - 1].released THEN "high"
                    ELSE "medium"

\* C6 witness: a report with a "high" entry and a "medium" entry whose node
\* has an unreleased parent.
C6_Witness ==
    /\ Analyzed
    /\ Len(ret.val.leaks) = 2
    /\ ret.val.leaks[1].priority = "high"
    /\ ret.val.leaks[2].priority = "medium"
    /\ ret.val.leaks[2].parent_released = Some(FALSE)

---------------------------------------------------------------------------
(* C7 *)

\* C7: a leaks entry carries the chain's trailing annotation exactly when its
\* node is the last node of the list and the chain has an annotation; every
\* other entry carries none.
C7_BlueprintOnLastNodeOnly ==
    Analyzed =>
        \A j \in 1..Len(ret.val.leaks) :
            ret.val.leaks[j].cpp_blueprint =
                IF Kth(LeakPositions, j) = Len(nodes) THEN cpp_instance
                ELSE None

\* C7 witness: an annotated chain whose two leaked nodes have the same class
\* name and address; only the entry of the last one carries the annotation.
C7_Witness ==
    /\ Analyzed
    /\ cpp_instance # None
    /\ Len(ret.val.leaks) = 2
    /\ ret.val.leaks[1].node = ret.val.leaks[2].node
    /\ ret.val.leaks[1].cpp_blueprint = None
    /\ ret.val.leaks[2].cpp_blueprint = cpp_instance

---------------------------------------------------------------------------
(* C8 *)

\* C8: construction and analyze end with a result, never with an exception,
\* for every input; when no segment matches the node pattern the node list
\* is empty and the report has total_nodes = 0, leaked_nodes = 0 and no
\* leaks entry.
C8_NeverFails ==
    /\ pc # "raised"
    /\ (Parsed /\ NodeSegPositions = {}) => nodes = << >>
    /\ ret.op = "analyze" => ret.val.raised = None
    /\ (Analyzed /\ NodeSegPositions = {}) =>
           /\ ret.val.total_nodes = 0
           /\ ret.val.leaked_nodes = 0
           /\ ret.val.leaks = << >>

\* C8 witness: the report of an annotated string without any node segment.
C8_Witness ==
    /\ Analyzed
    /\ NodeSegPositions = {}
    /\ cpp_instance # None
    /\ ret.val.total_nodes = 0

---------------------------------------------------------------------------
(* C9 *)

\* The chain a string parses to on its own.
Alone(chain_str) == ReferenceChain(chain_str, << >>, 1)

\* The elements of a list.
Elems(list) == {list[i] : i \in 1..Len(list)}

\* C9: total_chains is the number of input strings; unique_leaked_classes
\* holds, each once, exactly the class names of the unreleased nodes of the
\* chains; unique_cpp_blueprints holds, each once, exactly the trailing
\* annotations of the chains that have one; chains[i] is the analysis of the
\* i-th input string parsed on its own.
C9_BatchAggregates ==
    mpc = "done" =>
        LET r == result[1]
            n == Len(chain_strings)
        IN  /\ r.total_chains = n
            /\ Elems(r.unique_leaked_classes) =
                   {d.class_name :
                        d \in {e \in UNION {Elems(Alone(chain_strings[i]).nodes)
                                                : i \in 1..n} : ~e.released}}
            /\ Len(r.unique_leaked_classes) =
                   Cardinality(Elems(r.unique_leaked_classes))
            /\ Elems(r.unique_cpp_blueprints) =
                   {Alone(chain_strings[i]).cpp_instance[1] :
                        i \in {h \in 1..n :
                                  Alone(chain_strings[h]).cpp_instance # None}}
            /\ Len(r.unique_cpp_blueprints) =
                   Cardinality(Elems(r.unique_cpp_blueprints))
            /\ Len(r.chains) = n
            /\ \A i \in 1..n : r.chains[i] = Analyze(Alone(chain_strings[i]))

\* C9 witness: two chains that both leak class A, one of which also leaks
\* class C and has an annotation; the result names A and C once.
C9_Witness ==
    /\ mpc = "done"
    /\ Len(chain_strings) = 2
    /\ \A i \in 1..2 : \E j \in 1..Len(chains[i].nodes) :
           /\ chains[i].nodes[j].class_name = <<"A">>
           /\ ~chains[i].nodes[j].released
    /\ Elems(result[1].unique_leaked_classes) = {<<"A">>, <<"C">>}
    /\ Len(result[1].unique_cpp_blueprints) = 1

---------------------------------------------------------------------------
(* C10 *)

\* The identifiers appended as an annotation, and the text that appends one.
Idents == {<<"X">>, <<"W", "_", "C">>}
AnnotationSuffix(X) == DotMarker \o <<" ", "=", " ">> \o X

\* The node list without the identities of the node objects.
NodeDicts(ns) == [i \in 1..Len(ns) |-> NodeToDict(ns[i])]

\* The identifier t ends with: what follows its last character that is not
\* an identifier character.
TrailingIdent(t) ==
    LET others == {i \in 1..Len(t) : t[i] \notin WordChars}
        from == IF others = {} THEN 0
                ELSE CHOOSE i \in others : \A h \in others : h <= i
    IN  SubSeq(t, from + 1, Len(t))

\* Parsing raw_chain followed by ".__cppinst = X" gives the node list of
\* raw_chain alone and the annotation X.
AppendingAnnotationKeepsPath ==
    \A X \in Idents :
        LET annotated == Alone(raw_chain \o AnnotationSuffix(X))
        IN  /\ NodeDicts(annotated.nodes) = NodeDicts(nodes)
            /\ annotated.cpp_instance = Some(X)

\* C10 as claimed: appending a trailing annotation leaves the parsed path
\* unchanged and sets the annotation; the chain has an annotation only when
\* the string ends with the marker suffix, the identifier's last character
\* being the very end of the string.
C10_AnnotationAnchoredAtVeryEnd ==
    Parsed =>
        /\ AppendingAnnotationKeepsPath
        /\ cpp_instance # None => EndsWithAnnotation(raw_chain)

\* C10 amended: appending a trailing annotation leaves the parsed path
\* unchanged and sets the annotation; the chain has an annotation exactly
\* when the string, one final line feed left aside, ends with the marker
\* suffix, and the annotation is then the identifier that ends it.
C10_AnnotationAnchoredAtEndOrBeforeFinalLineFeed ==
    Parsed =>
        /\ AppendingAnnotationKeepsPath
        /\ cpp_instance # None <=> EndsWithAnnotation(Chomp(raw_chain))
        /\ cpp_instance # None =>
               cpp_instance = Some(TrailingIdent(Chomp(raw_chain)))

\* C10 witness: a chain whose node carries a field and which already ends
\* with an annotation other than the appended ones.
C10_Witness ==
    /\ Parsed
    /\ Len(nodes) = 1
    /\ nodes[1].field # None
    /\ cpp_instance # None
    /\ cpp_instance[1] \notin Idents

====
